---- MODULE Spec2Model ----
(***************************************************************************)
(* A model of SceneManager (src/SceneManager.cpp): the texture registry    *)
(* (m_textureIDs, m_loadedTextures), the material registry                 *)
(* (m_objectMaterials), the part of the OpenGL context the registry acts   *)
(* on (texture names, texture units) and the shader uniforms written by    *)
(* SetTransformations, SetShaderColor, SetShaderTexture, SetShaderMaterial *)
(* and RenderScene.                                                        *)
(***************************************************************************)
EXTENDS Integers, Sequences, FiniteSets

(***************************************************************************)
(* Bounds.  MAX_TEXTURES is set in SceneManager.h, which is not part of    *)
(* the source at hand; every operation below is written for an arbitrary   *)
(* capacity and the capacity is scaled down so that the registry fills up. *)
(***************************************************************************)
MAX_TEXTURES == 2
\* the individual CreateGLTexture calls stop once this many names were generated
MaxGen == 3
\* PrepareScene calls allowed in one run
MaxPrepare == 1

\* the tags PrepareScene uses (lines 444-450), in the order of use
TagPool == <<"tent", "ground", "campfire", "sky", "bark", "metal", "rock">>
\* the tags the individual calls are made with: one more than the capacity
Tags == {TagPool[i] : i \in 1..(MAX_TEXTURES + 1)}

\* stbi_load's result: 0 is a failed load (NULL), else the channel count
Images == 0..4
\* what stbi_load yields for PrepareScene's files: missing, or an RGB JPEG
SceneImages == {0, 3}
TextureUnits == 0..(MAX_TEXTURES - 1)

\* colours passed to SetShaderColor (r, g, b, a in hundredths)
Colors == {<<100, 0, 0, 100>>, <<20, 40, 10, 50>>}

\* arguments passed to SetTransformations: scales, rotations in degrees whose
\* sine and cosine are integers, and positions
Scales == {<<1, 1, 1>>, <<2, 3, 4>>}
Degrees == {0, 90, 180, -90}
Positions == {<<0, 0, 0>>, <<5, -6, 7>>}

VARIABLES
    m_pShaderManager,   \* "NULL" or "shader"
    m_loadedTextures,   \* number of tracked entries
    m_textureIDs,       \* array [0..MAX_TEXTURES-1] of [ID, tag]
    m_objectMaterials,  \* std::vector<OBJECT_MATERIAL>
    gl,                 \* the OpenGL context: texture names and units
    uniforms,           \* the shader program's uniforms
    call,               \* the call made last, with what it returned
    prepared,           \* number of PrepareScene calls made
    draws,              \* the draw calls of the last RenderScene, each with
                        \* the uniforms it was issued under
    phase               \* "alive", "destroyed" after the destructor,
                        \* "crashed" after a call through a NULL pointer

vars == <<m_pShaderManager, m_loadedTextures, m_textureIDs, m_objectMaterials,
          gl, uniforms, call, prepared, draws, phase>>

(***************************************************************************)
(* The OpenGL calls the scene manager makes, on the context record         *)
(*   next    the next unused texture name                                  *)
(*   live    the names of the texture objects that exist                   *)
(*   deletes how often glDeleteTextures was called on each name            *)
(*   active  the active texture unit                                       *)
(*   bound   the GL_TEXTURE_2D binding of each unit (0: none)              *)
(* A name is never handed out twice, so a name stands for one object.      *)
(* Names are small consecutive integers; FindTextureID's int holds them    *)
(* unchanged (line 221).                                                   *)
(***************************************************************************)
glGenTextures(g) ==
    [g EXCEPT !.next = @ + 1, !.live = @ \cup {g.next},
              !.deletes = [h \in 1..g.next |->
                              IF h < g.next THEN g.deletes[h] ELSE 0]]

glBindTexture(g, name) ==
    [g EXCEPT !.bound[g.active] = name]

glActiveTexture(g, unit) ==
    [g EXCEPT !.active = unit]

\* deleting a bound texture resets the binding to 0; names that are no
\* texture are ignored
glDeleteTextures(g, name) ==
    IF name \in g.live
    THEN [g EXCEPT !.live = @ \ {name},
                   !.deletes[name] = @ + 1,
                   !.bound = [u \in TextureUnits |->
                                 IF g.bound[u] = name THEN 0 ELSE g.bound[u]]]
    ELSE IF name \in DOMAIN g.deletes
    THEN [g EXCEPT !.deletes[name] = @ + 1]
    ELSE g

(***************************************************************************)
(* CreateGLTexture (lines 69-173) on the registry and the context:         *)
(* st = [n, ids, gl]; the result adds the return value and the name that   *)
(* glGenTextures produced (0 if it was not called).                        *)
(***************************************************************************)
CreateFailedLoad(st) ==
    [n |-> st.n, ids |-> st.ids, gl |-> st.gl, ret |-> FALSE, textureID |-> 0]

CreateUnsupported(st) ==
    \* lines 97-98, 137-146: generated, bound, unbound, not deleted
    LET textureID == st.gl.next
        g1 == glBindTexture(glGenTextures(st.gl), textureID)
    IN  [n |-> st.n, ids |-> st.ids, gl |-> glBindTexture(g1, 0),
         ret |-> FALSE, textureID |-> textureID]

\* variant: a full registry overwrites its last entry
CreateRegisterOverwrite(st, tag) ==
    LET textureID == st.gl.next
        g1 == glBindTexture(glGenTextures(st.gl), textureID)
        g2 == glBindTexture(g1, 0)
        at == IF st.n < MAX_TEXTURES THEN st.n ELSE MAX_TEXTURES - 1
    IN  [n |-> at + 1,
         ids |-> [st.ids EXCEPT ![at] = [ID |-> textureID, tag |-> tag]],
         gl |-> g2, ret |-> TRUE, textureID |-> textureID]

CreateRegister(st, tag) ==
    \* lines 97-98, 149-168
    LET textureID == st.gl.next
        g1 == glBindTexture(glGenTextures(st.gl), textureID)
        g2 == glBindTexture(g1, 0)
    IN  IF st.n < MAX_TEXTURES
        THEN [n |-> st.n + 1,
              ids |-> [st.ids EXCEPT ![st.n] = [ID |-> textureID, tag |-> tag]],
              gl |-> g2, ret |-> TRUE, textureID |-> textureID]
        ELSE [n |-> st.n, ids |-> st.ids,
              gl |-> g2, ret |-> TRUE, textureID |-> textureID]

\* variant: every channel count other than 4 is uploaded as RGB
CreateGLTextureCoerce(st, image, tag) ==
    IF image # 0
    THEN CreateRegister(st, tag)
    ELSE CreateFailedLoad(st)

CreateGLTextureOp(st, image, tag) ==
    IF image # 0
    THEN IF image = 3 \/ image = 4
         THEN CreateRegister(st, tag)
         ELSE CreateUnsupported(st)
    ELSE CreateFailedLoad(st)

(***************************************************************************)
(* FindTextureID (lines 211-231) and FindTextureSlot (lines 239-259): the  *)
(* while loop from a given index.                                          *)
(***************************************************************************)
\* variant: the scan does not stop at the first match
RECURSIVE FindTextureIDLast(_, _, _, _)
FindTextureIDLast(ids, n, tag, index) ==
    IF index < n
    THEN LET rest == FindTextureIDLast(ids, n, tag, index + 1)
         IN  IF ids[index].tag = tag /\ rest = -1
             THEN ids[index].ID
             ELSE rest
    ELSE -1

RECURSIVE FindTextureIDFrom(_, _, _, _)
FindTextureIDFrom(ids, n, tag, index) ==
    IF index < n
    THEN IF ids[index].tag = tag
         THEN ids[index].ID
         ELSE FindTextureIDFrom(ids, n, tag, index + 1)
    ELSE -1

RECURSIVE FindTextureSlotFrom(_, _, _, _)
FindTextureSlotFrom(ids, n, tag, index) ==
    IF index < n
    THEN IF ids[index].tag = tag
         THEN index
         ELSE FindTextureSlotFrom(ids, n, tag, index + 1)
    ELSE -1

FindTextureID(tag) == FindTextureIDFrom(m_textureIDs, m_loadedTextures, tag, 0)

FindTextureSlot(tag) == FindTextureSlotFrom(m_textureIDs, m_loadedTextures, tag, 0)

(***************************************************************************)
(* DestroyGLTextures (lines 196-203): the for loop from index i.           *)
(***************************************************************************)
\* variant: the loop stops one entry early
RECURSIVE DestroyLoopShort(_, _, _, _)
DestroyLoopShort(g, ids, n, i) ==
    IF i < n - 1
    THEN DestroyLoopShort(glDeleteTextures(g, ids[i].ID), ids, n, i + 1)
    ELSE g

RECURSIVE DestroyLoop(_, _, _, _)
DestroyLoop(g, ids, n, i) ==
    IF i < n
    THEN DestroyLoop(glDeleteTextures(g, ids[i].ID), ids, n, i + 1)
    ELSE g

(***************************************************************************)
(* BindGLTextures (lines 181-188): the for loop from index i.              *)
(***************************************************************************)
\* variant: the loop does not select the unit
RECURSIVE BindLoopNoUnit(_, _, _, _)
BindLoopNoUnit(g, ids, n, i) ==
    IF i < n
    THEN BindLoopNoUnit(glBindTexture(g, ids[i].ID), ids, n, i + 1)
    ELSE g

RECURSIVE BindLoop(_, _, _, _)
BindLoop(g, ids, n, i) ==
    IF i < n
    THEN BindLoop(glBindTexture(glActiveTexture(g, i), ids[i].ID), ids, n, i + 1)
    ELSE g

(***************************************************************************)
(* PrepareScene's seven CreateGLTexture calls (lines 444-450): call i      *)
(* loads images[i] under TagPool[i].                                       *)
(***************************************************************************)
RECURSIVE PrepareTextures(_, _, _)
PrepareTextures(st, images, i) ==
    IF i <= Len(TagPool)
    THEN PrepareTextures(CreateGLTextureOp(st, images[i], TagPool[i]), images, i + 1)
    ELSE st

\* the materials PrepareScene defines (lines 467-513), values in hundredths
Vec3(x) == <<x, x, x>>

SceneMaterials ==
    << [tag |-> "floor", diffuseColor |-> <<44, 26, 8>>,
        specularColor |-> Vec3(30), shininess |-> 3200],
       [tag |-> "tent", diffuseColor |-> <<20, 40, 10>>,
        specularColor |-> Vec3(20), shininess |-> 1600],
       [tag |-> "campfire", diffuseColor |-> <<100, 50, 0>>,
        specularColor |-> Vec3(30), shininess |-> 800],
       [tag |-> "bark", diffuseColor |-> <<35, 20, 10>>,
        specularColor |-> Vec3(10), shininess |-> 1200],
       [tag |-> "metal", diffuseColor |-> Vec3(60),
        specularColor |-> Vec3(90), shininess |-> 6400],
       [tag |-> "sky", diffuseColor |-> Vec3(100),
        specularColor |-> Vec3(0), shininess |-> 100] >>

(***************************************************************************)
(* FindMaterial (lines 267-292).  The vector is indexed from 1 here; the   *)
(* result is the return value and the caller's material after the call.    *)
(***************************************************************************)
\* variant: the shininess is not copied
RECURSIVE FindMaterialFromNoShininess(_, _, _, _)
FindMaterialFromNoShininess(mats, tag, material, index) ==
    IF index <= Len(mats)
    THEN IF mats[index].tag = tag
         THEN [material EXCEPT !.diffuseColor = mats[index].diffuseColor,
                               !.specularColor = mats[index].specularColor]
         ELSE FindMaterialFromNoShininess(mats, tag, material, index + 1)
    ELSE material

RECURSIVE FindMaterialFrom(_, _, _, _)
FindMaterialFrom(mats, tag, material, index) ==
    IF index <= Len(mats)
    THEN IF mats[index].tag = tag
         THEN [material EXCEPT !.diffuseColor = mats[index].diffuseColor,
                               !.specularColor = mats[index].specularColor,
                               !.shininess = mats[index].shininess]
         ELSE FindMaterialFrom(mats, tag, material, index + 1)
    ELSE material

\* variant: the return value is bFound
FindMaterialFound(mats, tag, material) ==
    [ret |-> \E i \in 1..Len(mats) : mats[i].tag = tag,
     material |-> FindMaterialFrom(mats, tag, material, 1)]

FindMaterial(mats, tag, material) ==
    IF Len(mats) = 0
    THEN [ret |-> FALSE, material |-> material]
    ELSE [ret |-> TRUE, material |-> FindMaterialFrom(mats, tag, material, 1)]

\* the tags FindMaterial is called with: first, inner and last entry, and two
\* tags PrepareScene defines no material for
MaterialTags == {"floor", "metal", "sky", "rock", "ground"}

\* the material objects FindMaterial is called with
MaterialInputs ==
    { [tag |-> "", diffuseColor |-> Vec3(0), specularColor |-> Vec3(0),
       shininess |-> 0],
      [tag |-> "", diffuseColor |-> <<7, 8, 9>>, specularColor |-> <<1, 2, 3>>,
       shininess |-> 55] }

(***************************************************************************)
(* glm's 4x4 matrices, m[row][column], with the functions SetTransformations *)
(* calls (lines 308-314).  The sine and cosine of glm::radians(degrees) are  *)
(* taken exactly; they are integers for the multiples of 90 degrees.         *)
(***************************************************************************)
Cos(degrees) ==
    CASE degrees % 360 = 0 -> 1
      [] degrees % 360 = 90 -> 0
      [] degrees % 360 = 180 -> -1
      [] degrees % 360 = 270 -> 0

Sin(degrees) ==
    CASE degrees % 360 = 0 -> 0
      [] degrees % 360 = 90 -> 1
      [] degrees % 360 = 180 -> 0
      [] degrees % 360 = 270 -> -1

IdentityMatrix ==
    << <<1, 0, 0, 0>>, <<0, 1, 0, 0>>, <<0, 0, 1, 0>>, <<0, 0, 0, 1>> >>

ZeroMatrix ==
    << <<0, 0, 0, 0>>, <<0, 0, 0, 0>>, <<0, 0, 0, 0>>, <<0, 0, 0, 0>> >>

\* operator* of glm::mat4: entry (r, c), a row, the matrix
MatEntry(a, b, r, c) ==
    a[r][1] * b[1][c] + a[r][2] * b[2][c] + a[r][3] * b[3][c] + a[r][4] * b[4][c]

MatRow(a, b, r) ==
    <<MatEntry(a, b, r, 1), MatEntry(a, b, r, 2), MatEntry(a, b, r, 3),
      MatEntry(a, b, r, 4)>>

MatMul(a, b) ==
    <<MatRow(a, b, 1), MatRow(a, b, 2), MatRow(a, b, 3), MatRow(a, b, 4)>>

\* glm::scale(v)
glmScale(v) ==
    << <<v[1], 0, 0, 0>>, <<0, v[2], 0, 0>>, <<0, 0, v[3], 0>>, <<0, 0, 0, 1>> >>

\* glm::translate(v)
glmTranslate(v) ==
    << <<1, 0, 0, v[1]>>, <<0, 1, 0, v[2]>>, <<0, 0, 1, v[3]>>, <<0, 0, 0, 1>> >>

\* glm::rotate(glm::radians(degrees), axis) for a unit axis
glmRotate(degrees, axis) ==
    LET c == Cos(degrees)
        s == Sin(degrees)
        t == <<(1 - c) * axis[1], (1 - c) * axis[2], (1 - c) * axis[3]>>
    IN  << <<c + t[1] * axis[1], t[2] * axis[1] - s * axis[3],
             t[3] * axis[1] + s * axis[2], 0>>,
           <<t[1] * axis[2] + s * axis[3], c + t[2] * axis[2],
             t[3] * axis[2] - s * axis[1], 0>>,
           <<t[1] * axis[3] - s * axis[2], t[2] * axis[3] + s * axis[1],
             c + t[3] * axis[3], 0>>,
           <<0, 0, 0, 1>> >>

\* variant: the rotations are multiplied in the order X, Y, Z
ModelViewXYZ(scaleXYZ, XrotationDegrees, YrotationDegrees, ZrotationDegrees, positionXYZ) ==
    MatMul(glmTranslate(positionXYZ),
      MatMul(glmRotate(XrotationDegrees, <<1, 0, 0>>),
        MatMul(glmRotate(YrotationDegrees, <<0, 1, 0>>),
          MatMul(glmRotate(ZrotationDegrees, <<0, 0, 1>>),
                 glmScale(scaleXYZ)))))

\* modelView (lines 308-314)
ModelView(scaleXYZ, XrotationDegrees, YrotationDegrees, ZrotationDegrees, positionXYZ) ==
    MatMul(glmTranslate(positionXYZ),
      MatMul(glmRotate(ZrotationDegrees, <<0, 0, 1>>),
        MatMul(glmRotate(YrotationDegrees, <<0, 1, 0>>),
          MatMul(glmRotate(XrotationDegrees, <<1, 0, 0>>),
                 glmScale(scaleXYZ)))))

NoMaterial ==
    [tag |-> "", diffuseColor |-> Vec3(0), specularColor |-> Vec3(0),
     shininess |-> 0]

NoCall ==
    [op |-> "none", tag |-> "", image |-> 0, ret |-> FALSE, textureID |-> 0,
     color |-> <<0, 0, 0, 0>>, material |-> NoMaterial, result |-> NoMaterial,
     transform |-> <<>>]

Init ==
    /\ m_pShaderManager \in {"NULL", "shader"}
    /\ m_loadedTextures = 0
    /\ m_textureIDs = [i \in TextureUnits |-> [ID |-> 0, tag |-> ""]]
    /\ m_objectMaterials = <<>>
    /\ gl = [next |-> 1, live |-> {}, deletes |-> <<>>,
             active |-> 0, bound |-> [u \in TextureUnits |-> 0]]
    /\ uniforms = [bUseTexture |-> 0, objectColor |-> <<0, 0, 0, 0>>,
                   objectTexture |-> 0, model |-> ZeroMatrix,
                   material |-> [diffuseColor |-> Vec3(0),
                                 specularColor |-> Vec3(0), shininess |-> 0],
                   UVscale |-> <<0, 0>>, bUseLighting |-> 0, lighting |-> <<>>]
    /\ call = NoCall
    /\ prepared = 0
    /\ draws = <<>>
    /\ phase = "alive"

CreateGLTexture(image, tag) ==
    /\ phase = "alive"
    /\ gl.next <= MaxGen
    /\ LET r == CreateGLTextureOp(
                    [n |-> m_loadedTextures, ids |-> m_textureIDs, gl |-> gl],
                    image, tag)
       IN  /\ m_loadedTextures' = r.n
           /\ m_textureIDs' = r.ids
           /\ gl' = r.gl
           /\ call' = [NoCall EXCEPT !.op = "CreateGLTexture", !.tag = tag,
                                      !.image = image, !.ret = r.ret,
                                      !.textureID = r.textureID]
    /\ UNCHANGED <<draws, m_pShaderManager, m_objectMaterials, uniforms, prepared, phase>>

BindGLTextures ==
    /\ phase = "alive"
    /\ gl' = BindLoop(gl, m_textureIDs, m_loadedTextures, 0)
    /\ call' = [NoCall EXCEPT !.op = "BindGLTextures"]
    /\ UNCHANGED <<draws, m_pShaderManager, m_loadedTextures, m_textureIDs,
                   m_objectMaterials, uniforms, prepared, phase>>

DestroyGLTextures ==
    /\ phase = "alive"
    /\ gl' = DestroyLoop(gl, m_textureIDs, m_loadedTextures, 0)
    /\ m_loadedTextures' = 0
    /\ call' = [NoCall EXCEPT !.op = "DestroyGLTextures"]
    /\ UNCHANGED <<draws, m_pShaderManager, m_textureIDs, m_objectMaterials, uniforms,
                   prepared, phase>>

\* ~SceneManager (lines 50-59)
Destructor ==
    /\ phase = "alive"
    /\ gl' = DestroyLoop(gl, m_textureIDs, m_loadedTextures, 0)
    /\ m_loadedTextures' = 0
    /\ m_pShaderManager' = "NULL"
    /\ phase' = "destroyed"
    /\ call' = [NoCall EXCEPT !.op = "~SceneManager"]
    /\ UNCHANGED <<draws, m_textureIDs, m_objectMaterials, uniforms, prepared>>

\* SetTransformations (lines 300-320)
SetTransformations(scaleXYZ, XrotationDegrees, YrotationDegrees, ZrotationDegrees, positionXYZ) ==
    /\ phase = "alive"
    /\ uniforms' = IF m_pShaderManager # "NULL"
                   THEN [uniforms EXCEPT !.model =
                            ModelView(scaleXYZ, XrotationDegrees,
                                      YrotationDegrees, ZrotationDegrees,
                                      positionXYZ)]
                   ELSE uniforms
    /\ call' = [NoCall EXCEPT !.op = "SetTransformations",
                              !.transform = [scaleXYZ |-> scaleXYZ,
                                             X |-> XrotationDegrees,
                                             Y |-> YrotationDegrees,
                                             Z |-> ZrotationDegrees,
                                             positionXYZ |-> positionXYZ]]
    /\ UNCHANGED <<draws, m_pShaderManager, m_loadedTextures, m_textureIDs,
                   m_objectMaterials, gl, prepared, phase>>

\* SetShaderColor (lines 328-346)
SetShaderColor(currentColor) ==
    /\ phase = "alive"
    /\ uniforms' = IF m_pShaderManager # "NULL"
                   THEN [uniforms EXCEPT !.bUseTexture = 0,
                                         !.objectColor = currentColor]
                   ELSE uniforms
    /\ call' = [NoCall EXCEPT !.op = "SetShaderColor", !.color = currentColor]
    /\ UNCHANGED <<draws, m_pShaderManager, m_loadedTextures, m_textureIDs,
                   m_objectMaterials, gl, prepared, phase>>

\* variant: texturing is turned on only when the tag resolves
SetShaderTextureResolved(textureTag) ==
    /\ phase = "alive"
    /\ uniforms' = IF m_pShaderManager # "NULL"
                   THEN LET slot == FindTextureSlot(textureTag)
                        IN  IF slot >= 0
                            THEN [uniforms EXCEPT !.bUseTexture = 1,
                                                  !.objectTexture = slot]
                            ELSE uniforms
                   ELSE uniforms
    /\ call' = [NoCall EXCEPT !.op = "SetShaderTexture", !.tag = textureTag]
    /\ UNCHANGED <<draws, m_pShaderManager, m_loadedTextures, m_textureIDs,
                   m_objectMaterials, gl, prepared, phase>>

\* variant: the sampler is written without testing the slot
SetShaderTextureUnchecked(textureTag) ==
    /\ phase = "alive"
    /\ uniforms' = IF m_pShaderManager # "NULL"
                   THEN [uniforms EXCEPT !.bUseTexture = 1,
                                         !.objectTexture =
                                             FindTextureSlot(textureTag)]
                   ELSE uniforms
    /\ call' = [NoCall EXCEPT !.op = "SetShaderTexture", !.tag = textureTag]
    /\ UNCHANGED <<draws, m_pShaderManager, m_loadedTextures, m_textureIDs,
                   m_objectMaterials, gl, prepared, phase>>

\* SetShaderTexture (lines 354-376)
SetShaderTexture(textureTag) ==
    /\ phase = "alive"
    /\ uniforms' = IF m_pShaderManager # "NULL"
                   THEN LET slot == FindTextureSlot(textureTag)
                        IN  IF slot >= 0
                            THEN [uniforms EXCEPT !.bUseTexture = 1,
                                                  !.objectTexture = slot]
                            ELSE [uniforms EXCEPT !.bUseTexture = 1]
                   ELSE uniforms
    /\ call' = [NoCall EXCEPT !.op = "SetShaderTexture", !.tag = textureTag]
    /\ UNCHANGED <<draws, m_pShaderManager, m_loadedTextures, m_textureIDs,
                   m_objectMaterials, gl, prepared, phase>>

\* PrepareScene (lines 434-514); the meshes it loads hold no state of the model
PrepareScene(images) ==
    /\ phase = "alive"
    /\ prepared < MaxPrepare
    /\ LET r == PrepareTextures(
                    [n |-> m_loadedTextures, ids |-> m_textureIDs, gl |-> gl],
                    images, 1)
       IN  /\ m_loadedTextures' = r.n
           /\ m_textureIDs' = r.ids
           /\ gl' = r.gl
    /\ m_objectMaterials' = m_objectMaterials \o SceneMaterials
    /\ prepared' = prepared + 1
    /\ call' = [NoCall EXCEPT !.op = "PrepareScene"]
    /\ UNCHANGED <<draws, m_pShaderManager, uniforms, phase>>

\* a call of FindMaterial (lines 267-292) with the caller's material object
FindMaterialCall(tag, material) ==
    /\ phase = "alive"
    /\ LET r == FindMaterial(m_objectMaterials, tag, material)
       IN  call' = [NoCall EXCEPT !.op = "FindMaterial", !.tag = tag,
                                  !.ret = r.ret, !.material = material,
                                  !.result = r.material]
    /\ UNCHANGED <<draws, m_pShaderManager, m_loadedTextures, m_textureIDs,
                   m_objectMaterials, gl, uniforms, prepared, phase>>

(***************************************************************************)
(* RenderScene (lines 516-688) as the list of the calls it makes after     *)
(* BindGLTextures and SetupLighting.  Scales and positions are in          *)
(* hundredths, the rotation arguments in ten-thousandths of a degree;      *)
(* glm::radians(x) is written as its value, and XrotationDegrees (lines    *)
(* 523, 544, 587) as the value it has at each call.                        *)
(***************************************************************************)
Transform(s, x, y, z, p) ==
    [op |-> "SetTransformations", scaleXYZ |-> s, X |-> x, Y |-> y, Z |-> z,
     positionXYZ |-> p]

Material(tag) == [op |-> "SetShaderMaterial", tag |-> tag]

Texture(tag) == [op |-> "SetShaderTexture", tag |-> tag]

UVScale(u, v) == [op |-> "SetTextureUVScale", u |-> u, v |-> v]

Lighting(value) == [op |-> "bUseLighting", value |-> value]

Draw(mesh) == [op |-> "Draw", mesh |-> mesh]

LogScale == <<40, 300, 50>>

SceneCommands ==
    << \* ground plane (lines 526-532)
       Transform(<<30000, 100, 20000>>, 0, 0, 0, <<0, 0, 0>>),
       Material("floor"), Texture("ground"), UVScale(1000, 1000), Draw("Plane"),
       \* sky backdrop (lines 535-547)
       Lighting(0),
       Transform(<<100000, 100, 50000>>, -450000, 0, 0, <<0, 30000, 0>>),
       Material("sky"), Texture("sky"), UVScale(100, 100), Draw("Plane"),
       Lighting(1),
       \* tent base and roof (lines 552-568)
       Transform(<<900, 10, -500>>, -10000, 0, 0, <<-745, 10, -450>>),
       Material("tent"), Texture("tent"), Draw("Box"),
       Transform(<<800, 10, -500>>, 0, 0, 450000, <<-1050, 200, -500>>),
       Material("tent"), Texture("tent"), Draw("Box"),
       Transform(<<800, 10, -500>>, 0, 0, -450000, <<-500, 200, -500>>),
       Draw("Box"),
       \* campfire ring (lines 571-576)
       Transform(<<200, 10, 250>>, 0, 0, 0, <<150, 50, -200>>),
       Material("campfire"), Texture("campfire"), Draw("Cylinder"),
       \* fire logs (lines 582-634)
       Transform(LogScale, 62832, 0, 0, <<-25, 50, -125>>),
       Material("bark"), Texture("bark"), Draw("Cylinder"),
       Transform(LogScale, 15708, 10472, 5236, <<100, 50, 50>>),
       Draw("Cylinder"),
       Transform(LogScale, 15708, -10472, 5236, <<150, 50, -400>>),
       Draw("Cylinder"),
       Transform(LogScale, 15708, 10472, 5236, <<300, 50, -100>>),
       Draw("Cylinder"),
       Transform(LogScale, 15708, 10472, 5236, <<10, 50, -10>>),
       Draw("Cylinder"),
       Transform(LogScale, 15708, 10472, 5236, <<200, 50, 50>>),
       Draw("Cylinder"),
       Transform(LogScale, 15708, 10472, 5236, <<25, 50, -375>>),
       Draw("Cylinder"),
       Transform(<<240, 500, 50>>, 15708, 10472, 5236, <<250, 50, -375>>),
       Draw("Cylinder"),
       \* mug body and handle (lines 637-648)
       Transform(<<40, 60, 40>>, 0, 0, 0, <<600, 30, -150>>),
       Material("metal"), Texture("metal"), Draw("Cylinder"),
       Transform(<<15, 15, 15>>, 0, 0, 0, <<550, 60, -150>>),
       Draw("Torus"),
       \* rocks (lines 653-678)
       Lighting(0),
       Transform(<<1030, 520, 870>>, 2618, 3491, 873, <<1500, 50, -1500>>),
       Material("rock"), Texture("rock"), Draw("Sphere"),
       Lighting(0),
       Transform(<<120, 60, 100>>, 2094, 1396, 524, <<1200, 30, -450>>),
       Material("rock"), Texture("rock"), Draw("Sphere"),
       Transform(<<180, 120, 140>>, 4363, 3142, 2094, <<700, 40, -700>>),
       Material("rock"), Texture("rock"), Draw("Sphere") >>

\* SetupLighting (lines 690-720); the attenuation factors are in thousandths
SetupLighting(u) ==
    [u EXCEPT
       !.bUseLighting = 1,
       !.lighting =
          [viewPosition |-> <<0, 500, 1500>>,
           dirLight |-> [direction |-> <<-50, -50, -100>>,
                         diffuse |-> Vec3(90), specular |-> Vec3(100),
                         bActive |-> TRUE],
           pointLights |->
              << [position |-> <<1400, 600, -1400>>, ambient |-> Vec3(40),
                  diffuse |-> Vec3(80), specular |-> Vec3(100),
                  constant |-> 1000, linear |-> 90, quadratic |-> 32,
                  bActive |-> TRUE],
                 [position |-> <<150, 100, -200>>, ambient |-> <<60, 30, 10>>,
                  diffuse |-> <<90, 40, 10>>, specular |-> <<80, 30, 20>>,
                  constant |-> 1000, linear |-> 140, quadratic |-> 70,
                  bActive |-> TRUE] >>]]

\* SetTransformations (lines 300-320) as RenderScene calls it: the sines and
\* cosines of its angles are no integers, so the matrix of line 314 is kept
\* as the arguments it is composed from
SceneModelView(t) ==
    [scaleXYZ |-> t.scaleXYZ, X |-> t.X, Y |-> t.Y, Z |-> t.Z,
     positionXYZ |-> t.positionXYZ]

\* SetShaderTexture (lines 354-376) on the uniforms u
SetShaderTextureOp(u, textureTag) ==
    LET slot == FindTextureSlot(textureTag)
    IN  IF slot >= 0
        THEN [u EXCEPT !.bUseTexture = 1, !.objectTexture = slot]
        ELSE [u EXCEPT !.bUseTexture = 1]

\* SetShaderMaterial (lines 398-413) on the uniforms u; material is the
\* value its uninitialized local variable has
SetShaderMaterialOp(u, mats, materialTag, material) ==
    IF Len(mats) > 0
    THEN LET r == FindMaterial(mats, materialTag, material)
         IN  IF r.ret = TRUE
             THEN [u EXCEPT !.material =
                     [diffuseColor |-> r.material.diffuseColor,
                      specularColor |-> r.material.specularColor,
                      shininess |-> r.material.shininess]]
             ELSE u
    ELSE u

\* the calls of SceneCommands whose local material is read before FindMaterial
\* has written it: those made on a non-empty registry without the tag
SceneLocals ==
    IF Len(m_objectMaterials) = 0
    THEN {}
    ELSE {i \in 1..Len(SceneCommands) :
             /\ SceneCommands[i].op = "SetShaderMaterial"
             /\ \A k \in 1..Len(m_objectMaterials) :
                    m_objectMaterials[k].tag # SceneCommands[i].tag}

\* the values an uninitialized OBJECT_MATERIAL may hold
UninitMaterials == MaterialInputs

\* command i of SceneCommands on st = [uniforms, draws]
SceneStep(st, locals, i) ==
    LET c == SceneCommands[i]
        u == st.uniforms
    IN  CASE c.op = "SetTransformations" ->
                [st EXCEPT !.uniforms.model = SceneModelView(c)]
          [] c.op = "SetShaderMaterial" ->
                [st EXCEPT !.uniforms =
                    SetShaderMaterialOp(u, m_objectMaterials, c.tag,
                        IF i \in DOMAIN locals THEN locals[i]
                                               ELSE NoMaterial)]
          [] c.op = "SetShaderTexture" ->
                [st EXCEPT !.uniforms = SetShaderTextureOp(u, c.tag)]
          [] c.op = "SetTextureUVScale" ->
                [st EXCEPT !.uniforms.UVscale = <<c.u, c.v>>]
          [] c.op = "bUseLighting" ->
                [st EXCEPT !.uniforms.bUseLighting = c.value]
          [] c.op = "Draw" ->
                [st EXCEPT !.draws =
                    Append(@, [mesh |-> c.mesh, uniforms |-> u])]

\* commands first..last in their order, on st
RECURSIVE RunScene(_, _, _, _)
RunScene(st, locals, first, last) ==
    IF first > last
    THEN st
    ELSE IF first = last
    THEN SceneStep(st, locals, first)
    ELSE LET mid == (first + last) \div 2
         IN  \* the first half has run when the second half begins
             CHOOSE r \in {RunScene(s, locals, mid + 1, last) :
                              s \in {RunScene(st, locals, first, mid)}} : TRUE

\* RenderScene (lines 516-688).  With a NULL shader manager SetupLighting
\* calls through the NULL pointer (line 692) and the process ends.
RenderScene(locals) ==
    /\ phase = "alive"
    /\ gl' = BindLoop(gl, m_textureIDs, m_loadedTextures, 0)
    /\ IF m_pShaderManager = "NULL"
       THEN /\ phase' = "crashed"
            /\ draws' = <<>>
            /\ UNCHANGED uniforms
       ELSE LET r == RunScene([uniforms |-> SetupLighting(uniforms),
                              draws |-> <<>>], locals, 1, Len(SceneCommands))
            IN  /\ uniforms' = r.uniforms
                /\ draws' = r.draws
                /\ UNCHANGED phase
    /\ call' = [NoCall EXCEPT !.op = "RenderScene"]
    /\ UNCHANGED <<m_pShaderManager, m_loadedTextures, m_textureIDs,
                   m_objectMaterials, prepared>>

\* the texture registry and the context, up to the destructor
Next ==
    \/ \E image \in Images, tag \in Tags : CreateGLTexture(image, tag)
    \/ BindGLTextures
    \/ DestroyGLTextures
    \/ Destructor

Spec == Init /\ [][Next]_vars

\* the shader's colour and texture state over a changing registry
ShaderNext ==
    \/ \E image \in Images, tag \in Tags : CreateGLTexture(image, tag)
    \/ DestroyGLTextures
    \/ \E currentColor \in Colors : SetShaderColor(currentColor)
    \/ \E textureTag \in Tags : SetShaderTexture(textureTag)

SpecShader == Init /\ [][ShaderNext]_vars

\* the scene: PrepareScene fills both registries, then materials are looked up
SceneNext ==
    \/ \E images \in [1..Len(TagPool) -> SceneImages] : PrepareScene(images)
    \/ \E tag \in MaterialTags, material \in MaterialInputs :
           FindMaterialCall(tag, material)

SpecScene == Init /\ [][SceneNext]_vars

\* the model transform
TransformNext ==
    \E scaleXYZ \in Scales, X \in Degrees, Y \in Degrees, Z \in Degrees,
       positionXYZ \in Positions :
        SetTransformations(scaleXYZ, X, Y, Z, positionXYZ)

SpecTransform == Init /\ [][TransformNext]_vars

\* the scene prepared and rendered
RenderNext ==
    \/ \E images \in [1..Len(TagPool) -> SceneImages] : PrepareScene(images)
    \/ \E locals \in [SceneLocals -> UninitMaterials] : RenderScene(locals)

SpecRender == Init /\ [][RenderNext]_vars

(***************************************************************************)
(* Properties.                                                             *)
(***************************************************************************)
\* the indexes of the tracked entries, and those holding a tag
TrackedIndexes == 0..(m_loadedTextures - 1)

TrackedWith(tag) == {i \in TrackedIndexes : m_textureIDs[i].tag = tag}

TrackedTagsDistinct ==
    \A i, j \in TrackedIndexes :
        m_textureIDs[i].tag = m_textureIDs[j].tag => i = j

\* the tags looked up: those registered, one never registered and the tag
\* of the array's initial entries
LookupTags == Tags \cup {"unregistered", ""}

\* C1: for every tag held by a tracked entry FindTextureID returns the handle
\* of the earliest-registered entry with that tag and FindTextureSlot its
\* index, which lies in [0, m_loadedTextures); for every other tag both
\* return -1.
C1_LookupFirstMatch ==
    \A tag \in LookupTags :
        IF TrackedWith(tag) # {}
        THEN LET first == CHOOSE i \in TrackedWith(tag) :
                              \A j \in TrackedWith(tag) : i <= j
             IN  /\ FindTextureID(tag) = m_textureIDs[first].ID
                 /\ FindTextureSlot(tag) = first
                 /\ 0 <= FindTextureSlot(tag)
                 /\ FindTextureSlot(tag) < m_loadedTextures
        ELSE /\ FindTextureID(tag) = -1
             /\ FindTextureSlot(tag) = -1

\* two tracked entries share a tag and have different handles, and another
\* tag is held by no tracked entry
C1_Witness ==
    /\ call.op = "CreateGLTexture"
    /\ \E i, j \in TrackedIndexes :
           /\ i < j
           /\ m_textureIDs[i].tag = m_textureIDs[j].tag
           /\ m_textureIDs[i].ID # m_textureIDs[j].ID
           /\ FindTextureID(m_textureIDs[j].tag) = m_textureIDs[i].ID
    /\ \E tag \in Tags : FindTextureID(tag) = -1

\* C2: a CreateGLTexture call with a 3- or 4-channel image and a tag that no
\* tracked entry holds, the tracked tags being distinct, returns true; below
\* the capacity the tag is then found with the call's handle at the next
\* slot, at the capacity m_loadedTextures stays MAX_TEXTURES, no entry
\* changes and the tag is not found; every tag tracked before keeps its own
\* handle and slot.
C2_Step ==
    (/\ call'.op = "CreateGLTexture"
     /\ call'.image \in {3, 4}
     /\ TrackedTagsDistinct
     /\ TrackedWith(call'.tag) = {})
    => /\ call'.ret = TRUE
       /\ \A i \in TrackedIndexes :
              /\ FindTextureIDFrom(m_textureIDs', m_loadedTextures',
                                   m_textureIDs[i].tag, 0) = m_textureIDs[i].ID
              /\ FindTextureSlotFrom(m_textureIDs', m_loadedTextures',
                                     m_textureIDs[i].tag, 0) = i
       /\ IF m_loadedTextures < MAX_TEXTURES
          THEN /\ m_loadedTextures' = m_loadedTextures + 1
               /\ FindTextureIDFrom(m_textureIDs', m_loadedTextures',
                                    call'.tag, 0) = call'.textureID
               /\ FindTextureSlotFrom(m_textureIDs', m_loadedTextures',
                                      call'.tag, 0) = m_loadedTextures
          ELSE /\ m_loadedTextures' = MAX_TEXTURES
               /\ m_textureIDs' = m_textureIDs
               /\ FindTextureIDFrom(m_textureIDs', m_loadedTextures',
                                    call'.tag, 0) = -1
               /\ FindTextureSlotFrom(m_textureIDs', m_loadedTextures',
                                      call'.tag, 0) = -1

C2_CapacityOverflow == [][C2_Step]_vars

\* the call after MAX_TEXTURES registrations with distinct tags was made: it
\* returned true, its texture exists and its tag is not found
C2_Witness ==
    /\ call.op = "CreateGLTexture"
    /\ call.image \in {3, 4}
    /\ call.ret = TRUE
    /\ m_loadedTextures = MAX_TEXTURES
    /\ TrackedTagsDistinct
    /\ call.textureID \in gl.live
    /\ FindTextureID(call.tag) = -1
    /\ FindTextureSlot(call.tag) = -1

\* C3: when CreateGLTexture decodes an image whose channel count is neither
\* 3 nor 4 it returns false and the texture it generated has been deleted
\* before it returns.
C3_UnsupportedReleased ==
    (call.op = "CreateGLTexture" /\ call.image \notin {0, 3, 4})
    => /\ call.ret = FALSE
       /\ call.textureID \notin gl.live

\* C4: a CreateGLTexture call whose image is not decoded or has a channel
\* count other than 3 and 4 returns false and leaves m_loadedTextures and
\* the entries as they were: every tag is found as before, and the call's
\* tag is not found unless a tracked entry held it.
C4_Step ==
    (call'.op = "CreateGLTexture" /\ call'.image \notin {3, 4})
    => /\ call'.ret = FALSE
       /\ m_loadedTextures' = m_loadedTextures
       /\ m_textureIDs' = m_textureIDs
       /\ \A tag \in LookupTags :
              /\ FindTextureIDFrom(m_textureIDs', m_loadedTextures', tag, 0)
                     = FindTextureID(tag)
              /\ FindTextureSlotFrom(m_textureIDs', m_loadedTextures', tag, 0)
                     = FindTextureSlot(tag)
       /\ TrackedWith(call'.tag) = {}
              => FindTextureIDFrom(m_textureIDs', m_loadedTextures',
                                   call'.tag, 0) = -1

C4_FailedCallKeepsRegistry == [][C4_Step]_vars

\* one entry is tracked and found, and the last call, with a 2-channel image
\* under another tag, returned false and its tag is not found
C4_Witness ==
    /\ call.op = "CreateGLTexture"
    /\ call.image = 2
    /\ call.ret = FALSE
    /\ m_loadedTextures = 1
    /\ m_textureIDs[0].tag # call.tag
    /\ FindTextureID(m_textureIDs[0].tag) = m_textureIDs[0].ID
    /\ FindTextureSlot(m_textureIDs[0].tag) = 0
    /\ FindTextureID(call.tag) = -1

\* C5: DestroyGLTextures on a registry with no entry deletes nothing and
\* leaves the count at 0; on a populated registry it deletes every tracked
\* handle (once, and no other name) and sets m_loadedTextures to 0, after
\* which FindTextureID and FindTextureSlot return -1 for every tag that was
\* registered.
C5_Step ==
    (call'.op = "DestroyGLTextures")
    => /\ m_loadedTextures' = 0
       /\ m_loadedTextures = 0 => gl' = gl
       /\ \A i \in TrackedIndexes :
              /\ m_textureIDs[i].ID \notin gl'.live
              /\ FindTextureIDFrom(m_textureIDs', m_loadedTextures',
                                   m_textureIDs[i].tag, 0) = -1
              /\ FindTextureSlotFrom(m_textureIDs', m_loadedTextures',
                                     m_textureIDs[i].tag, 0) = -1
       /\ \A h \in DOMAIN gl.deletes :
              gl'.deletes[h] =
                  IF \E i \in TrackedIndexes : m_textureIDs[i].ID = h
                  THEN gl.deletes[h] + 1
                  ELSE gl.deletes[h]

C5_DestroyReleasesAll == [][C5_Step]_vars

\* DestroyGLTextures ran on a full registry: the handles of all entries are
\* deleted and their tags are not found
C5_Witness ==
    /\ call.op = "DestroyGLTextures"
    /\ m_loadedTextures = 0
    /\ \A i \in TextureUnits :
           /\ m_textureIDs[i].ID \in DOMAIN gl.deletes
           /\ m_textureIDs[i].ID \notin gl.live
           /\ gl.deletes[m_textureIDs[i].ID] = 1
           /\ FindTextureID(m_textureIDs[i].tag) = -1

\* C6: once the destructor has run, every texture name that a
\* CreateGLTexture call generated has been deleted exactly once.
C6_DeletedExactlyOnce ==
    phase = "destroyed" => \A h \in DOMAIN gl.deletes : gl.deletes[h] = 1

\* C7: BindGLTextures binds tracked entry i to texture unit i for every i in
\* [0, m_loadedTextures) and changes the binding of no other unit; after it
\* the texture bound on unit FindTextureSlot(tag) is FindTextureID(tag) for
\* every tag that is found.
C7_Step ==
    (call'.op = "BindGLTextures")
    => /\ \A u \in TextureUnits :
              gl'.bound[u] = IF u < m_loadedTextures
                             THEN m_textureIDs[u].ID
                             ELSE gl.bound[u]
       /\ \A tag \in LookupTags :
              FindTextureSlot(tag) >= 0
                  => gl'.bound[FindTextureSlot(tag)] = FindTextureID(tag)

C7_BindUnitPerEntry == [][C7_Step]_vars

\* BindGLTextures ran on a full registry: every unit holds its entry's
\* handle, and the handles differ
C7_Witness ==
    /\ call.op = "BindGLTextures"
    /\ m_loadedTextures = MAX_TEXTURES
    /\ \A u \in TextureUnits :
           /\ gl.bound[u] = m_textureIDs[u].ID
           /\ gl.bound[u] \in gl.live
    /\ \E tag \in Tags :
           /\ FindTextureSlot(tag) = MAX_TEXTURES - 1
           /\ gl.bound[FindTextureSlot(tag)] = FindTextureID(tag)

\* the entries of m_objectMaterials that hold a tag
MaterialsWith(tag) ==
    {i \in 1..Len(m_objectMaterials) : m_objectMaterials[i].tag = tag}

\* C8: FindMaterial on an empty registry returns false and leaves the output
\* material unchanged; for a tag that a registered material holds it sets
\* the output's diffuseColor, specularColor and shininess to those of the
\* first-registered material with the tag; for a tag absent from a non-empty
\* registry it leaves the output material as the caller passed it in.
C8_FindMaterialOutput ==
    (call.op = "FindMaterial")
    => /\ Len(m_objectMaterials) = 0
              => call.ret = FALSE /\ call.result = call.material
       /\ MaterialsWith(call.tag) # {}
              => LET first == CHOOSE i \in MaterialsWith(call.tag) :
                                  \A j \in MaterialsWith(call.tag) : i <= j
                 IN  /\ call.result.diffuseColor
                            = m_objectMaterials[first].diffuseColor
                     /\ call.result.specularColor
                            = m_objectMaterials[first].specularColor
                     /\ call.result.shininess
                            = m_objectMaterials[first].shininess
       /\ MaterialsWith(call.tag) = {} => call.result = call.material

\* FindMaterial found "metal" and replaced the caller's values by the stored
\* ones
C8_Witness ==
    /\ call.op = "FindMaterial"
    /\ call.tag = "metal"
    /\ call.material.shininess = 55
    /\ call.result.diffuseColor = Vec3(60)
    /\ call.result.specularColor = Vec3(90)
    /\ call.result.shininess = 6400

\* C9: FindMaterial returns false only when the registry is empty; when the
\* registry is non-empty and no registered material has the tag it returns
\* true although no value was copied into the output.
C9_FindMaterialReturn ==
    (call.op = "FindMaterial")
    => /\ call.ret = FALSE <=> Len(m_objectMaterials) = 0
       /\ (Len(m_objectMaterials) > 0 /\ MaterialsWith(call.tag) = {})
              => call.ret = TRUE /\ call.result = call.material

\* FindMaterial was called for "rock" on the registry PrepareScene filled:
\* it returned true and the output is the caller's
C9_Witness ==
    /\ call.op = "FindMaterial"
    /\ call.tag = "rock"
    /\ Len(m_objectMaterials) >= Len(SceneMaterials)
    /\ MaterialsWith("rock") = {}
    /\ call.ret = TRUE
    /\ call.result = call.material
    /\ call.material.shininess = 55

\* C10: with a non-null shader manager, a SetShaderTexture call leaves
\* bUseTexture at 1 whether or not its tag resolved, a SetShaderColor call
\* leaves bUseTexture at 0 and objectColor at the call's colour, and no other
\* call changes either uniform: the most recent of the two decides.
C10_Step ==
    (m_pShaderManager # "NULL")
    => /\ call'.op = "SetShaderTexture"
              => /\ uniforms'.bUseTexture = 1
                 /\ uniforms'.objectColor = uniforms.objectColor
       /\ call'.op = "SetShaderColor"
              => /\ uniforms'.bUseTexture = 0
                 /\ uniforms'.objectColor = call'.color
       /\ call'.op \notin {"SetShaderTexture", "SetShaderColor"}
              => /\ uniforms'.bUseTexture = uniforms.bUseTexture
                 /\ uniforms'.objectColor = uniforms.objectColor

C10_LastShaderCallWins == [][C10_Step]_vars

\* a colour was set, then SetShaderTexture was called with a tag that does
\* not resolve: texturing is on
C10_Witness ==
    /\ m_pShaderManager # "NULL"
    /\ call.op = "SetShaderTexture"
    /\ FindTextureSlot(call.tag) = -1
    /\ m_loadedTextures > 0
    /\ uniforms.objectColor \in Colors
    /\ uniforms.bUseTexture = 1

\* a point (x, y, z) scaled, rotated about one axis, translated, and mapped
\* by a matrix as (x, y, z, 1)
ScalePoint(v, p) == <<v[1] * p[1], v[2] * p[2], v[3] * p[3]>>

RotateXPoint(d, p) ==
    <<p[1], Cos(d) * p[2] - Sin(d) * p[3], Sin(d) * p[2] + Cos(d) * p[3]>>

RotateYPoint(d, p) ==
    <<Cos(d) * p[1] + Sin(d) * p[3], p[2], Cos(d) * p[3] - Sin(d) * p[1]>>

RotateZPoint(d, p) ==
    <<Cos(d) * p[1] - Sin(d) * p[2], Sin(d) * p[1] + Cos(d) * p[2], p[3]>>

TranslatePoint(v, p) == <<p[1] + v[1], p[2] + v[2], p[3] + v[3]>>

MapCoordinate(m, p, r) ==
    m[r][1] * p[1] + m[r][2] * p[2] + m[r][3] * p[3] + m[r][4]

MapPoint(m, p) ==
    <<MapCoordinate(m, p, 1), MapCoordinate(m, p, 2), MapCoordinate(m, p, 3)>>

\* the origin, the unit points of the axes and one more point
ModelPoints == {<<0, 0, 0>>, <<1, 0, 0>>, <<0, 1, 0>>, <<0, 0, 1>>, <<2, -3, 5>>}

\* C11: with a shader manager, SetTransformations leaves in the "model"
\* uniform the matrix that maps a model-space point to the point scaled
\* first, then rotated about X, then Y, then Z, then translated; with scale
\* (1,1,1), rotations 0 and translation (0,0,0) it is the identity; with
\* rotations X = 90 and Y = 90 alone it maps some point differently from the
\* rotation about Y followed by the rotation about X.
C11_ModelTransform ==
    (call.op = "SetTransformations" /\ m_pShaderManager # "NULL")
    => LET a == call.transform
       IN  /\ uniforms.model[4] = <<0, 0, 0, 1>>
           /\ \A p \in ModelPoints :
                  MapPoint(uniforms.model, p)
                      = TranslatePoint(a.positionXYZ,
                          RotateZPoint(a.Z,
                            RotateYPoint(a.Y,
                              RotateXPoint(a.X, ScalePoint(a.scaleXYZ, p)))))
           /\ (a.scaleXYZ = <<1, 1, 1>> /\ a.X = 0 /\ a.Y = 0 /\ a.Z = 0
                   /\ a.positionXYZ = <<0, 0, 0>>)
                  => uniforms.model = IdentityMatrix
           /\ (a.scaleXYZ = <<1, 1, 1>> /\ a.X = 90 /\ a.Y = 90 /\ a.Z = 0
                   /\ a.positionXYZ = <<0, 0, 0>>)
                  => \E p \in ModelPoints :
                         MapPoint(uniforms.model, p)
                             # RotateXPoint(90, RotateYPoint(90, p))

\* SetTransformations ran with a scale, three rotations and a translation
\* that all act: the point (1, 0, 0) went to (5, -6, 5)
C11_Witness ==
    /\ call.op = "SetTransformations"
    /\ m_pShaderManager # "NULL"
    /\ call.transform = [scaleXYZ |-> <<2, 3, 4>>, X |-> 90, Y |-> 90,
                         Z |-> -90, positionXYZ |-> <<5, -6, 7>>]
    /\ MapPoint(uniforms.model, <<1, 0, 0>>) = <<5, -6, 5>>

\* C12: with a non-null shader manager, a SetShaderTexture call whose tag
\* resolves sets the objectTexture sampler to FindTextureSlot(tag); one whose
\* tag does not resolve sets bUseTexture to 1 and does not write the sampler,
\* and no other call writes it: it keeps the value of the last resolving
\* call, or its initial 0.
C12_Step ==
    (m_pShaderManager # "NULL")
    => /\ call'.op = "SetShaderTexture"
              => IF FindTextureSlot(call'.tag) >= 0
                 THEN /\ uniforms'.bUseTexture = 1
                      /\ uniforms'.objectTexture = FindTextureSlot(call'.tag)
                 ELSE /\ uniforms'.bUseTexture = 1
                      /\ uniforms'.objectTexture = uniforms.objectTexture
       /\ call'.op # "SetShaderTexture"
              => uniforms'.objectTexture = uniforms.objectTexture

C12_SamplerKeptOnMiss == [][C12_Step]_vars

\* the sampler was set to slot 1, the colour was set, then SetShaderTexture
\* was called with a tag that does not resolve: the sampler is still 1
C12_Witness ==
    /\ m_pShaderManager # "NULL"
    /\ call.op = "SetShaderTexture"
    /\ FindTextureSlot(call.tag) = -1
    /\ uniforms.bUseTexture = 1
    /\ uniforms.objectTexture = 1
    /\ uniforms.objectColor \in Colors

\* the tags RenderScene passes to SetShaderMaterial
SceneMaterialTags ==
    {SceneCommands[i].tag :
        i \in {j \in 1..Len(SceneCommands) :
                  SceneCommands[j].op = "SetShaderMaterial"}}

\* C13: in a RenderScene run after PrepareScene every SetShaderMaterial call
\* names a tag of the material registry, and at every draw call the material
\* uniforms hold the stored values of a registered material.
C13_DrawsUseRegisteredMaterials ==
    (call.op = "RenderScene" /\ prepared > 0 /\ phase = "alive")
    => /\ \A tag \in SceneMaterialTags : MaterialsWith(tag) # {}
       /\ \A d \in 1..Len(draws) :
              \E k \in 1..Len(m_objectMaterials) :
                 /\ draws[d].uniforms.material.diffuseColor
                        = m_objectMaterials[k].diffuseColor
                 /\ draws[d].uniforms.material.specularColor
                        = m_objectMaterials[k].specularColor
                 /\ draws[d].uniforms.material.shininess
                        = m_objectMaterials[k].shininess

====
